---- MODULE Spec2Model ----
(***************************************************************************)
(* Hermes (converter.py): conversion of an e-mail message and its          *)
(* attachments into one paginated A4 PDF plus an XML analysis sidecar.     *)
(*                                                                         *)
(* The model is an interpreter of process_eml / convert_attachment with an *)
(* explicit call stack and an explicit file system.  File names are        *)
(* sequences of one-character strings, so that the string operations of    *)
(* the code (suffix, replace, prefixing) are computed, not assumed.        *)
(***************************************************************************)
EXTENDS Integers, Sequences, FiniteSets, TLC

VARIABLES stack, fs, dirs, nextDir, ret, hist

vars == <<stack, fs, dirs, nextDir, ret, hist>>

(***************************************************************************)
(* Bounds of the model.                                                    *)
(***************************************************************************)
MaxAtts == 2      \* attachments of the top-level message
MaxPages == 2     \* pages of a multi-page input document
MaxDepth == 1     \* nesting depth of containers inside an attachment

(***************************************************************************)
(* Program constants.                                                      *)
(***************************************************************************)
MAX_LEN == 50
A4_WIDTH_PT == 59528      \* 595.28 pt, in hundredths of a point
A4_HEIGHT_PT == 84189     \* 841.89 pt, in hundredths of a point

(***************************************************************************)
(* Characters and strings.  A character is a one-character string; the     *)
(* longer strings "a-uml", "comb-uml" and "euro" stand for the non-ASCII   *)
(* characters U+00E4, U+0308 and U+20AC.                                   *)
(***************************************************************************)
LowerCase == <<"a","b","c","d","e","f","g","h","i","j","k","l","m",
               "n","o","p","q","r","s","t","u","v","w","x","y","z">>
UpperCase == <<"A","B","C","D","E","F","G","H","I","J","K","L","M",
               "N","O","P","Q","R","S","T","U","V","W","X","Y","Z">>
Digits == <<"0","1","2","3","4","5","6","7","8","9">>

Range(s) == {s[i] : i \in DOMAIN s}

\* the characters of the ASCII repertoire that occur in the model
AsciiChars == Range(LowerCase) \cup Range(UpperCase) \cup Range(Digits)
                \cup {".", "_", "-", " ", "/", "(", ")"}

\* str.lower() on one character
LowerChar(c) ==
    IF c \in Range(UpperCase)
    THEN LowerCase[CHOOSE i \in DOMAIN UpperCase : UpperCase[i] = c]
    ELSE c

Lower(s) == [i \in DOMAIN s |-> LowerChar(s[i])]

\* s[:n]
Take(s, n) == IF n >= Len(s) THEN s ELSE SubSeq(s, 1, n)

\* s[n:] (0-based n)
Drop(s, n) == IF n >= Len(s) THEN <<>> ELSE SubSeq(s, n + 1, Len(s))

StartsWith(s, p) == Len(s) >= Len(p) /\ SubSeq(s, 1, Len(p)) = p

\* s.rfind(c), 0-based, -1 when absent
RFind(s, c) ==
    IF \E i \in DOMAIN s : s[i] = c
    THEN (CHOOSE i \in DOMAIN s : s[i] = c /\ \A j \in DOMAIN s : s[j] = c => j <= i) - 1
    ELSE -1

\* str.replace(old, new): every non-overlapping occurrence, left to right
RECURSIVE Replace(_, _, _)
Replace(s, old, new) ==
    IF Len(s) < Len(old) \/ old = <<>> THEN s
    ELSE IF StartsWith(s, old)
         THEN new \o Replace(Drop(s, Len(old)), old, new)
         ELSE <<s[1]>> \o Replace(Drop(s, 1), old, new)

\* pathlib: PurePath.suffix of a file name
Suffix(name) ==
    LET i == RFind(name, ".")
    IN  IF 0 < i /\ i < Len(name) - 1 THEN Drop(name, i) ELSE <<>>

\* pathlib: PurePath.stem
Stem(name) == Take(name, Len(name) - Len(Suffix(name)))

\* pathlib: PurePath.with_suffix
WithSuffix(name, suffix) == Stem(name) \o suffix

\* os.path.splitext of a name without separators: the extension starts at
\* the last dot unless only dots precede it
SplitExt(name) ==
    LET i == RFind(name, ".")
    IN  IF i >= 0 /\ \E j \in 1..i : name[j] # "."
        THEN <<Take(name, i), Drop(name, i)>>
        ELSE <<name, <<>>>>

\* "{n:02d}" and "{n:04d}" for n < 100
Fmt02d(n) == <<Digits[(n \div 10) + 1], Digits[(n % 10) + 1]>>
Fmt04d(n) == <<"0", "0">> \o Fmt02d(n)

DotPdf == <<".", "p", "d", "f">>
DotXml == <<".", "x", "m", "l">>
DotEml == <<".", "e", "m", "l">>
DotMsg == <<".", "m", "s", "g">>
DotZip == <<".", "z", "i", "p">>
DotPng == <<".", "p", "n", "g">>
DotTxt == <<".", "t", "x", "t">>
DotDoc == <<".", "d", "o", "c">>
DotDocx == <<".", "d", "o", "c", "x">>
A4Pdf == <<"_", "a", "4">> \o DotPdf

(***************************************************************************)
(* Filename sanitization (process_eml, step 4).                            *)
(***************************************************************************)
\* unicodedata.normalize('NFKD', .) on one character
NFKD(c) == IF c = "a-uml" THEN <<"a", "comb-uml">> ELSE <<c>>

RECURSIVE Normalize(_)
Normalize(s) == IF s = <<>> THEN <<>> ELSE NFKD(s[1]) \o Normalize(Drop(s, 1))

\* .encode('ascii', 'ignore').decode('ascii')
AsciiOnly(s) == SelectSeq(s, LAMBDA c : c \in AsciiChars)

\* re.sub(r'[^a-zA-Z0-9._-]', '', .)
AllowedChars == Range(LowerCase) \cup Range(UpperCase) \cup Range(Digits)
                  \cup {".", "_", "-"}

KeepAllowed(s) == SelectSeq(s, LAMBDA c : c \in AllowedChars)

SpacesToUnderscore(s) == [i \in DOMAIN s |-> IF s[i] = " " THEN "_" ELSE s[i]]

\* truncation to MAX_LEN characters, keeping the extension where possible
Truncate(filename) ==
    IF Len(filename) > MAX_LEN
    THEN LET stem   == SplitExt(filename)[1]
             suffix == SplitExt(filename)[2]
             limit  == IF MAX_LEN - Len(suffix) < 1 THEN 1 ELSE MAX_LEN - Len(suffix)
             cut    == Take(stem, limit) \o suffix
         IN  IF Len(cut) > MAX_LEN THEN Take(cut, MAX_LEN) ELSE cut
    ELSE filename

Sanitize(filename) ==
    Truncate(KeepAllowed(SpacesToUnderscore(AsciiOnly(Normalize(filename)))))

(***************************************************************************)
(* Documents.  A page remembers where it comes from (src, no), its media   *)
(* box in hundredths of a point, whether its text can be extracted, and    *)
(* the page numbers stamped on it so far.                                  *)
(***************************************************************************)
Page(id, no, size, txt) ==
    [src |-> id, no |-> no, w |-> size[1], h |-> size[2], txt |-> txt, stamps |-> <<>>]

(***************************************************************************)
(* File contents.  One record shape serves every file:                     *)
(*   sniff   what filetype.guess reports for the leading bytes             *)
(*   empty   the file has size 0                                           *)
(*   pdf     pypdf's PdfReader can read the bytes                          *)
(*   meta    the document information of the PDF can be read               *)
(*   img     Pillow can open the bytes and save them as a PDF              *)
(*   office  LibreOffice, given the bytes, deposits a PDF                  *)
(*   pages   the pages of the PDF the bytes are or are converted to        *)
(*   ole     extract_msg can open the bytes as an Outlook item             *)
(*   msg     the message the bytes hold (<<>> when they hold none)         *)
(*   zip     zipfile can extract the bytes                                 *)
(*   entries the archive's members                                         *)
(*   xml     the Attachment entries of an analysis sidecar                 *)
(***************************************************************************)
NoSniff == "none"
MimePdf == "application/pdf"
MimePng == "image/png"
MimeIco == "image/x-icon"
MimeDocx == "application/vnd.openxmlformats-officedocument.wordprocessingml.document"
MimeDoc == "application/msword"
MimeZip == "application/zip"
MimeEml == "message/rfc822"
MimeOutlook == "application/vnd.ms-outlook"
MimeText == "text/plain"

Blob(id) ==
    [id |-> id, sniff |-> NoSniff, empty |-> FALSE, pdf |-> FALSE, meta |-> TRUE,
     img |-> FALSE, office |-> FALSE, pages |-> <<>>, ole |-> FALSE, msg |-> <<>>,
     zip |-> FALSE, entries |-> <<>>, xml |-> <<>>]

\* a PDF written by the program or by one of its delegates
GenPdf(id, pages) ==
    [Blob(id) EXCEPT !.sniff = MimePdf, !.pdf = TRUE, !.pages = pages]

\* the XML sidecar written by process_eml
GenXml(id, entries) == [Blob(id) EXCEPT !.xml = entries]

EmptyFile == [Blob(<<"empty", 0>>) EXCEPT !.empty = TRUE]

(***************************************************************************)
(* Input universe.                                                         *)
(***************************************************************************)
LetterSize == <<61200, 79200>>
ImageSize == <<30000, 20000>>
A4Size == <<A4_WIDTH_PT, A4_HEIGHT_PT>>

\* a multi-page PDF with mixed page sizes; the text of its last page
\* cannot be extracted
PdfPages(id) ==
    [i \in 1..MaxPages |->
        IF i % 2 = 1 THEN Page(id, i, LetterSize, i < MaxPages)
                     ELSE Page(id, i, ImageSize, i < MaxPages)]

PdfDoc == [Blob(<<"pdf", 0>>) EXCEPT !.sniff = MimePdf, !.pdf = TRUE,
                                      !.pages = PdfPages(<<"pdf", 0>>)]

\* starts with the PDF signature but cannot be read
CorruptPdf == [Blob(<<"corrupt", 0>>) EXCEPT !.sniff = MimePdf]

\* a readable PDF whose signature does not sit at offset 0
JunkPrefixedPdf ==
    [Blob(<<"prefixed", 0>>) EXCEPT !.pdf = TRUE,
        !.pages = <<Page(<<"prefixed", 0>>, 1, A4Size, TRUE)>>]

\* a readable PDF whose document information cannot be read
BadMetaPdf ==
    [Blob(<<"badmeta", 0>>) EXCEPT !.sniff = MimePdf, !.pdf = TRUE, !.meta = FALSE,
        !.pages = <<Page(<<"badmeta", 0>>, 1, LetterSize, TRUE)>>]

Png == [Blob(<<"png", 0>>) EXCEPT !.sniff = MimePng, !.img = TRUE,
            !.pages = <<Page(<<"png", 0>>, 1, ImageSize, FALSE)>>]

BadPng == [Blob(<<"badpng", 0>>) EXCEPT !.sniff = MimePng]

Ico == [Blob(<<"ico", 0>>) EXCEPT !.sniff = MimeIco]

Docx == [Blob(<<"docx", 0>>) EXCEPT !.sniff = MimeDocx, !.office = TRUE, !.zip = TRUE,
            !.pages = <<Page(<<"docx", 0>>, 1, A4Size, TRUE)>>]

BadDocx == [Blob(<<"baddocx", 0>>) EXCEPT !.sniff = MimeDocx]

Junk == Blob(<<"junk", 0>>)

Att(fn, ctype, blob) == [fn |-> fn, ctype |-> ctype, blob |-> blob]

Entry(path, blob) == [path |-> path, blob |-> blob]

N_a_pdf == <<"a">> \o DotPdf
N_b_docx == <<"b">> \o DotDocx
N_c_png == <<"c">> \o DotPng
N_d_zip == <<"d">> \o DotZip
N_e_eml == <<"e">> \o DotEml
N_f_msg == <<"f">> \o DotMsg
N_g_txt == <<"g">> \o DotTxt
N_body == <<"0", "0", "_", "b", "o", "d", "y">> \o DotPdf
N_umlaut == <<"a-uml", " ", "(", "1", ")">> \o DotPdf
N_euro == <<"euro">>
N_macosx == <<"_", "_", "M", "A", "C", "O", "S", "X", "/", ".", "_", "a">> \o DotPdf
N_hidden == <<".", "h">> \o DotPdf
N_sub_b == <<"s", "/", "b">> \o DotPdf
N_z_bin == <<"Z", ".", "b", "i", "n">>
N_x_pdf == <<"x">> \o DotPdf
N_zip_part == <<"z", "i", "p", "_", "p", "a", "r", "t", "_", "0", "0", "0", "0">> \o DotPdf

\* a nested message: d levels of e-mail below it
RECURSIVE NestedMsg(_)
NestedMsg(d) ==
    [id |-> <<"nested", d>>, body |-> "plain", npages |-> 1,
     atts |-> <<Att(N_c_png, "bin", Png), Att(N_a_pdf, "bin", PdfDoc)>>
              \o (IF d > 1
                  THEN <<Att(N_e_eml, "bin",
                             [Blob(<<"eml", d - 1>>) EXCEPT !.msg = <<NestedMsg(d - 1)>>])>>
                  ELSE <<>>)]

EmlBlob(d) == [Blob(<<"eml", d>>) EXCEPT !.msg = <<NestedMsg(d)>>]

MsgBlob(d) == [Blob(<<"msg", d>>) EXCEPT !.ole = TRUE,
                  !.msg = <<[NestedMsg(d) EXCEPT !.id = <<"item", d>>, !.body = "html"]>>]

\* an archive: d levels of archive below it
RECURSIVE ZipBlob(_)
ZipBlob(d) ==
    [Blob(<<"zip", d>>) EXCEPT !.sniff = MimeZip, !.zip = TRUE, !.office = TRUE,
        !.pages = <<Page(<<"zip", d>>, 1, A4Size, TRUE)>>,
        !.entries = <<Entry(N_sub_b, PdfDoc), Entry(N_macosx, PdfDoc),
                      Entry(N_hidden, PdfDoc), Entry(N_z_bin, Junk),
                      Entry(N_c_png, Png)>>
                    \o (IF d > 1 THEN <<Entry(N_d_zip, ZipBlob(d - 1))>> ELSE <<>>)]

\* an archive zipfile cannot open
CorruptZip == [Blob(<<"badzip", 0>>) EXCEPT !.sniff = MimeZip]

\* a second readable PDF, of one page
OtherPdf == [Blob(<<"pdf", 1>>) EXCEPT !.sniff = MimePdf, !.pdf = TRUE,
                !.pages = <<Page(<<"pdf", 1>>, 1, LetterSize, TRUE)>>]

\* an archive without entries
EmptyZip == [Blob(<<"zip-empty", 0>>) EXCEPT !.sniff = MimeZip, !.zip = TRUE]

\* an archive holding only administrative, hidden and unsupported entries
HiddenOnlyZip ==
    [Blob(<<"zip-hidden", 0>>) EXCEPT !.sniff = MimeZip, !.zip = TRUE,
        !.entries = <<Entry(N_macosx, PdfDoc), Entry(N_hidden, PdfDoc),
                      Entry(N_z_bin, Junk)>>]

\* an archive holding an image and a PDF that cannot be read
BadMemberZip ==
    [Blob(<<"zip-bad", 0>>) EXCEPT !.sniff = MimeZip, !.zip = TRUE,
        !.entries = <<Entry(N_c_png, Png), Entry(N_x_pdf, CorruptPdf)>>]

\* an archive one entry of which bears the name of a per-entry output file
PartNameZip ==
    [Blob(<<"zip-part", 0>>) EXCEPT !.sniff = MimeZip, !.zip = TRUE,
        !.entries = <<Entry(N_x_pdf, PdfDoc), Entry(N_zip_part, OtherPdf)>>]

\* the attachments combined with one another in one message
CoreChoices ==
    { Att(N_umlaut, "bin", PdfDoc),
      Att(N_a_pdf, "bin", CorruptPdf),
      Att(N_a_pdf, "bin", JunkPrefixedPdf),
      Att(N_body, "bin", PdfDoc),
      Att(N_c_png, "bin", Png),
      Att(N_b_docx, "bin", Docx),
      Att(N_b_docx, "bin", BadDocx),
      Att(N_b_docx, "bin", Png),
      Att(N_b_docx, "bin", ZipBlob(MaxDepth)),
      Att(N_d_zip, "bin", ZipBlob(MaxDepth)),
      Att(N_d_zip, "bin", HiddenOnlyZip),
      Att(N_e_eml, "bin", EmlBlob(MaxDepth)),
      Att(N_f_msg, "bin", MsgBlob(MaxDepth)) }

\* every attachment of the universe
AttChoices ==
    CoreChoices \cup
    { Att(N_a_pdf, "bin", BadMetaPdf),
      Att(N_a_pdf, "bin", EmptyFile),
      Att(N_euro, "bin", PdfDoc),
      Att(N_c_png, "bin", Ico),
      Att(N_d_zip, "bin", CorruptZip),
      Att(N_d_zip, "bin", EmptyZip),
      Att(N_d_zip, "bin", BadMemberZip),
      Att(N_d_zip, "bin", PartNameZip),
      Att(N_e_eml, "rfc822", EmlBlob(MaxDepth)) }

SeqsUpTo(S, n) == UNION {[1..k -> S] : k \in 0..n}

\* messages with a part the attachment loop passes over: no filename, a
\* name that sanitizes to nothing, or a text part, whose content is a str
\* that a file opened in binary mode does not take
SkipChoices ==
    { <<Att(<<>>, "bin", PdfDoc), Att(N_c_png, "bin", Png)>>,
      <<Att(N_euro, "bin", PdfDoc), Att(N_c_png, "bin", Png)>>,
      <<Att(N_g_txt, "text", Junk), Att(N_c_png, "bin", Png)>>,
      <<Att(N_body, "text", Junk)>> }

\* the name of the normalized PDF of a first attachment c.png
N_part_a4 == Fmt02d(1) \o <<"_">> \o Replace(N_c_png \o DotPdf, DotPdf, A4Pdf)

\* the name of the normalized PDF of a first attachment a.pdf
N_pdf_a4 == Fmt02d(1) \o <<"_">> \o Replace(N_a_pdf \o DotPdf, DotPdf, A4Pdf)

\* messages whose attachments bear on one another: a second attachment
\* named like the normalized PDF of the first
PairChoices ==
    { <<Att(N_c_png, "bin", Png), Att(N_part_a4, "bin", OtherPdf)>>,
      <<Att(N_a_pdf, "bin", PdfDoc), Att(N_pdf_a4, "bin", OtherPdf)>> }

Message(body, atts) ==
    [id |-> <<"top", 0>>, body |-> body, npages |-> 1, atts |-> atts]

\* the top-level messages: an HTML body with up to MaxAtts of the core
\* attachments, and any body (HTML, plain text, none) with at most one
\* attachment of the whole universe
TopMessages ==
    {Message("html", a) : a \in SeqsUpTo(CoreChoices, MaxAtts)}
      \cup {Message(b, a) : b \in {"html", "plain", "none"}, a \in SeqsUpTo(AttChoices, 1)}
      \cup {Message("html", a) : a \in PairChoices}
      \cup {Message("html", a) : a \in SkipChoices}
      \cup {Message("html-cid", a) : a \in SeqsUpTo({Att(N_c_png, "bin", Png)}, 1)}

(***************************************************************************)
(* The file system: a function from paths <<directory, name>> to contents. *)
(***************************************************************************)
InDir == <<"in", 0>>
OutDir == <<"out", 0>>
NoDir == <<"none", 0>>
TmpDir(n) == <<"tmp", n>>

Exists(f, path) == path \in DOMAIN f

\* open(path, 'wb') ... write(content)
WriteFile(f, path, content) ==
    [q \in DOMAIN f \cup {path} |-> IF q = path THEN content ELSE f[q]]

\* shutil.rmtree(dir)
RmTree(f, dir) == [q \in {r \in DOMAIN f : r[1] # dir} |-> f[q]]

\* Path(dir) / name cannot be opened as a file when name is empty, "." or ".."
IsFileName(name) == name \notin {<<>>, <<".">>, <<".", ".">>}

(***************************************************************************)
(* PDF operations.                                                         *)
(***************************************************************************)
\* PdfReader(path) succeeds
Readable(f, path) == Exists(f, path) /\ ~f[path].empty /\ f[path].pdf

\* scale_to_a4 raises: the input cannot be read, or a page is degenerate
ScaleFails(f, path) ==
    \/ ~Readable(f, path)
    \/ \E i \in DOMAIN f[path].pages : f[path].pages[i].w = 0 \/ f[path].pages[i].h = 0

\* scale_to_a4: every page composited onto a blank A4 page
ScaleToA4(pages) ==
    [i \in DOMAIN pages |-> [pages[i] EXCEPT !.w = A4_WIDTH_PT, !.h = A4_HEIGHT_PT]]

\* (mutant) the merge loop stops one part early
RECURSIVE MergeAllButLast(_, _)
MergeAllButLast(f, parts) ==
    IF Len(parts) <= 1 THEN <<>>
    ELSE f[parts[1]].pages \o MergeAllButLast(f, Tail(parts))

\* PdfWriter.append of each part in turn
RECURSIVE MergePages(_, _)
MergePages(f, parts) ==
    IF parts = <<>> THEN <<>>
    ELSE f[parts[1]].pages \o MergePages(f, Tail(parts))

\* merger.append raises on a part that cannot be read
MergeFails(f, parts) == \E i \in DOMAIN parts : ~Readable(f, parts[i])

\* add_page_numbers: page i is merged with the overlay "Seite: i"
AddPageNumbers(pages) ==
    [i \in DOMAIN pages |-> [pages[i] EXCEPT !.stamps = Append(@, i)]]

\* extract_pdf_data: <<>> stands for None, <<data>> for the dictionary
ExtractPdfData(f, path) ==
    IF ~Readable(f, path) \/ ~f[path].meta THEN <<>>
    ELSE <<[pages |-> [i \in DOMAIN f[path].pages |->
                        [id |-> i,
                         text |-> IF f[path].pages[i].txt THEN "text"
                                  ELSE "[Error extracting text]"]]]>>

(***************************************************************************)
(* Classification and dispatch (convert_attachment).                       *)
(***************************************************************************)
SupportedImages ==
    {"image/jpeg", "image/png", "image/gif", "image/bmp", "image/tiff", "image/webp"}

\* detected_mime.startswith('image/')
ImageMimes == SupportedImages \cup {MimeIco}

OfficeMimes ==
    {"application/msword",
     "application/vnd.openxmlformats-officedocument.wordprocessingml.document",
     "application/vnd.ms-excel",
     "application/vnd.openxmlformats-officedocument.spreadsheetml.sheet",
     "application/vnd.ms-powerpoint",
     "application/vnd.openxmlformats-officedocument.presentationml.presentation",
     "application/vnd.oasis.opendocument.text",
     "application/vnd.oasis.opendocument.spreadsheet",
     "application/vnd.oasis.opendocument.presentation"}

OfficeExts ==
    {DotDoc, DotDocx, <<".", "x", "l", "s">>, <<".", "x", "l", "s", "x">>,
     <<".", "p", "p", "t">>, <<".", "p", "p", "t", "x">>,
     <<".", "o", "d", "t">>, <<".", "o", "d", "s">>, <<".", "o", "d", "p">>}

ZipOfficeExts ==
    {DotDocx, <<".", "x", "l", "s", "x">>, <<".", "p", "p", "t", "x">>,
     <<".", "o", "d", "t">>, <<".", "o", "d", "s">>, <<".", "o", "d", "p">>}

\* mimetypes.guess_type, for the extensions of the model
MimeOfExt(ext) ==
    CASE ext = DotPdf  -> MimePdf
      [] ext = DotPng  -> MimePng
      [] ext = DotDoc  -> MimeDoc
      [] ext = DotDocx -> MimeDocx
      [] ext = DotZip  -> MimeZip
      [] ext = DotEml  -> MimeEml
      [] ext = DotMsg  -> MimeOutlook
      [] ext = DotTxt  -> MimeText
      [] OTHER         -> NoSniff

\* filepath.suffix.lower()
ExtOf(name) == Lower(Suffix(name))

\* the name component of a path inside a directory
BaseName(name) ==
    LET i == RFind(name, "/") IN IF i < 0 THEN name ELSE Drop(name, i + 1)

\* detected_mime after the fallback to the extension
DetectMime(sniff, name) ==
    IF sniff # NoSniff THEN sniff ELSE MimeOfExt(ExtOf(BaseName(name)))

\* steps 4 to 6 of convert_attachment, reached when steps 1 to 3 do not return
ContainerStrategy(mime, ext) ==
    IF ext = DotEml \/ mime = MimeEml THEN "eml"
    ELSE IF ext = DotMsg \/ mime = MimeOutlook THEN "msg"
    ELSE IF mime = MimeZip \/ ext = DotZip THEN "zip"
    ELSE "none"

\* is_office, inside the office branch
IsOffice(mime, ext) ==
    \/ mime \in OfficeMimes /\ ext # DotMsg
    \/ mime = MimeZip /\ ext \in ZipOfficeExts
    \/ ext \in OfficeExts

\* the strategy convert_attachment applies to a non-empty file
Strategy(mime, ext) ==
    IF mime = MimePdf THEN "pdf"
    ELSE IF mime \in ImageMimes
         THEN IF mime \in SupportedImages THEN "image" ELSE ContainerStrategy(mime, ext)
    ELSE IF mime \in OfficeMimes \/ ext \in OfficeExts
         THEN IF IsOffice(mime, ext) THEN "office" ELSE ContainerStrategy(mime, ext)
    ELSE ContainerStrategy(mime, ext)

\* is_original_pdf_or_office in process_eml: filetype's answer alone, then
\* the extension
IsOriginalPdfOrOffice(sniff, ext) ==
    sniff = MimePdf \/ sniff \in OfficeMimes \/ ext \in OfficeExts

(***************************************************************************)
(* Archive members: ordering and hidden entries.                           *)
(***************************************************************************)
\* the characters in ascending code-point order
CharOrder == <<" ", "(", ")", "-", ".", "/">> \o Digits \o UpperCase
               \o <<"_">> \o LowerCase

CharCode(c) == CHOOSE i \in DOMAIN CharOrder : CharOrder[i] = c

\* a < b as Python compares strings
RECURSIVE StrLess(_, _)
StrLess(a, b) ==
    IF b = <<>> THEN FALSE
    ELSE IF a = <<>> THEN TRUE
    ELSE IF a[1] = b[1] THEN StrLess(Tail(a), Tail(b))
    ELSE CharCode(a[1]) < CharCode(b[1])

\* file_list.sort(key=lambda x: str(x)) over the extracted files
RECURSIVE SortPaths(_)
SortPaths(S) ==
    IF S = {} THEN <<>>
    ELSE LET least == CHOOSE a \in S : \A b \in S \ {a} : StrLess(a, b)
         IN  <<least>> \o SortPaths(S \ {least})

\* Path.parts of a relative path
RECURSIVE PathParts(_)
PathParts(name) ==
    LET i == RFind(name, "/")
    IN  IF i < 0 THEN <<name>> ELSE Append(PathParts(Take(name, i)), Drop(name, i + 1))

MacOsx == <<"_", "_", "M", "A", "C", "O", "S", "X">>

\* '__MACOSX' in subfile.parts or subfile.name.startswith('.')
IsHidden(name) ==
    \/ MacOsx \in Range(PathParts(name))
    \/ StartsWith(BaseName(name), <<".">>)

\* zf.extractall(zip_path)
RECURSIVE ExtractAll(_, _, _)
ExtractAll(f, dir, entries) ==
    IF entries = <<>> THEN f
    ELSE ExtractAll(WriteFile(f, <<dir, entries[1].path>>, entries[1].blob),
                    dir, Tail(entries))

(***************************************************************************)
(* Messages.                                                               *)
(***************************************************************************)
\* email.message_from_binary_file: any bytes parse; bytes that hold no
\* message parse to a text body without attachments
AsMessage(b) ==
    IF b.msg # <<>> THEN b.msg[1]
    ELSE [id |-> b.id, body |-> "plain", npages |-> 1, atts |-> <<>>]

Untitled == <<"u", "n", "t", "i", "t", "l", "e", "d">>

\* save_msg_as_eml: the attachments of the item that have data, each under
\* its own name or "untitled", with a guessed media type
TranscodeAtt(a) ==
    LET fn   == IF a.fn = <<>> THEN Untitled ELSE a.fn
        mime == DetectMime(a.blob.sniff, fn)
    IN  [fn |-> fn,
         ctype |-> IF mime = MimeEml THEN "rfc822"
                   ELSE IF mime = MimeText THEN "text" ELSE "bin",
         blob |-> a.blob]

SaveMsgAsEml(b) ==
    LET m    == b.msg[1]
        kept == SelectSeq(m.atts, LAMBDA a : ~a.blob.empty)
    IN  [Blob(b.id) EXCEPT
            !.msg = <<[m EXCEPT !.atts = [i \in DOMAIN kept |-> TranscodeAtt(kept[i])]]>>]

\* the pages WeasyPrint renders for the body of message m: header block plus
\* the HTML body, the wrapped plain text, or the placeholder
\* the image references of the body HTML handed to the renderer.  The body
\* "html-cid" is an HTML body with an <img> whose source is cid:logo and an
\* inline part with the Content-ID logo; no statement of process_eml rewrites
\* a reference with the cid scheme, so it is handed on as it is
BodyContent(m) ==
    [images |-> IF m.body = "html-cid" THEN {[scheme |-> "cid", ref |-> "logo"]} ELSE {}]

BodyPages(m) ==
    [i \in 1..m.npages |-> Page(<<m.id[1], m.id[2], m.body>>, i, A4Size, TRUE)]

(***************************************************************************)
(* The call stack.  A frame is one invocation of process_eml ("eml") or of *)
(* convert_attachment ("conv"); the fields gbody and glog are ghosts that  *)
(* remember what the invocation rendered and how each attachment fared.    *)
(***************************************************************************)
Frame(kind, pc, inp, outp) ==
    [kind |-> kind, pc |-> pc, inp |-> inp, outp |-> outp, dir |-> NoDir,
     msg |-> <<>>, i |-> 0, attach_idx |-> 0, pdf_parts |-> <<>>,
     analysis |-> <<>>, file_list |-> <<>>, filename |-> <<>>,
     filepath |-> <<>>, output_part_path |-> <<>>, strat |-> "none",
     exc |-> "none", body_content |-> <<>>, gbody |-> <<>>, glog |-> <<>>]

Top == stack[Len(stack)]
SetTop(f) == [stack EXCEPT ![Len(stack)] = f]
Push(f, g) == Append(SetTop(f), g)
Pop == SubSeq(stack, 1, Len(stack) - 1)
Running(kind, pc) == stack # <<>> /\ Top.kind = kind /\ Top.pc = pc

NoRet == [t |-> "none", val |-> FALSE, at |-> "none", strat |-> "none"]
Returned(v, strat) == [t |-> "return", val |-> v, at |-> "none", strat |-> strat]
Raised(at) == [t |-> "raise", val |-> FALSE, at |-> at, strat |-> "none"]

InputName == <<"m">> \o DotEml
OutputName == <<"m">> \o DotPdf
TempMerged == <<"t", "e", "m", "p", "_", "m", "e", "r", "g", "e", "d">> \o DotPdf
ZipPart(i) == <<"z", "i", "p", "_", "p", "a", "r", "t", "_">> \o Fmt04d(i)

Init ==
    /\ \E m \in TopMessages :
          fs = [q \in {<<InDir, InputName>>} |-> [Blob(<<"input", 0>>) EXCEPT !.msg = <<m>>]]
    /\ stack = <<Frame("eml", "Parse", <<InDir, InputName>>, <<OutDir, OutputName>>)>>
    /\ dirs = {}
    /\ nextDir = 1
    /\ ret = NoRet
    /\ hist = [dispatch |-> {}, office |-> {}, recorded |-> {}, zips |-> {},
               raised |-> {}, done |-> <<>>]

(***************************************************************************)
(* process_eml.                                                            *)
(***************************************************************************)
\* (mutant) the run goes from parsing straight to the attachments
ParseThenAttachments ==
    /\ Running("eml", "Parse")
    /\ LET f == Top
           d == TmpDir(nextDir)
       IN  /\ stack' = SetTop([f EXCEPT !.pc = "AttachmentLoop", !.dir = d,
                                        !.msg = <<AsMessage(fs[f.inp])>>,
                                        !.attach_idx = 1, !.i = 1])
           /\ dirs' = dirs \cup {d}
           /\ nextDir' = nextDir + 1
    /\ ret' = NoRet
    /\ UNCHANGED <<fs, hist>>

\* the message is parsed and the working directory created
Parse ==
    /\ Running("eml", "Parse")
    /\ LET f == Top
           d == TmpDir(nextDir)
       IN  /\ stack' = SetTop([f EXCEPT !.pc = "BodyRender", !.dir = d,
                                        !.msg = <<AsMessage(fs[f.inp])>>])
           /\ dirs' = dirs \cup {d}
           /\ nextDir' = nextDir + 1
    /\ ret' = NoRet
    /\ UNCHANGED <<fs, hist>>

\* the body HTML is built and rendered to 00_body.pdf; the renderer may fail
BodyRender ==
    /\ Running("eml", "BodyRender")
    /\ \E ok \in BOOLEAN :
          LET f == Top
              body_pdf_path == <<f.dir, N_body>>
              pages == BodyPages(f.msg[1])
          IN  IF ok
              THEN /\ fs' = WriteFile(fs, body_pdf_path, GenPdf(f.msg[1].id, pages))
                   /\ stack' = SetTop([f EXCEPT !.pc = "AttachmentLoop",
                                         !.pdf_parts = <<body_pdf_path>>,
                                         !.attach_idx = 1, !.i = 1, !.gbody = pages,
                                         !.body_content = <<BodyContent(f.msg[1])>>])
              ELSE /\ fs' = fs
                   /\ stack' = SetTop([f EXCEPT !.pc = "Finally", !.exc = "BodyRender"])
    /\ UNCHANGED <<dirs, nextDir, ret, hist>>

\* part.as_bytes() of a message/rfc822 part: the part's own MIME headers
\* followed by the enclosed message; parsed again it is a message/rfc822
\* entity, which has no body part and yields no attachments
AsBytes(part) ==
    [Blob(<<"part", part.blob.id[2]>>) EXCEPT
        !.msg = <<[id |-> <<"part", part.blob.id[2]>>, body |-> "none",
                   npages |-> 1, atts |-> <<>>]>>]

\* the head of the attachment loop, up to the call of convert_attachment
AttachStart ==
    /\ Running("eml", "AttachmentLoop")
    /\ LET f == Top
           m == f.msg[1]
       IN  IF f.i > Len(m.atts)
           THEN /\ stack' = SetTop([f EXCEPT !.pc = "Assemble"])
                /\ fs' = fs
           ELSE LET part     == m.atts[f.i]
                    filename == Sanitize(part.fn)
                    filepath == <<f.dir, filename>>
                    output_part_path ==
                        <<f.dir, Fmt02d(f.attach_idx) \o <<"_">> \o filename \o DotPdf>>
                    continue == SetTop([f EXCEPT !.i = f.i + 1])
                IN  IF part.fn = <<>>
                    THEN \* no filename
                         stack' = continue /\ fs' = fs
                    ELSE IF ~IsFileName(filename)
                    THEN \* open() raises: the path is a directory
                         stack' = continue /\ fs' = fs
                    ELSE IF part.ctype = "text"
                    THEN \* open() truncates the file, write() rejects the str
                         stack' = continue /\ fs' = WriteFile(fs, filepath, EmptyFile)
                    ELSE /\ fs' = WriteFile(fs, filepath,
                                            IF part.ctype = "rfc822" THEN AsBytes(part)
                                            ELSE part.blob)
                         /\ stack' = Push([f EXCEPT !.pc = "AttachConverted",
                                             !.filename = filename,
                                             !.filepath = filepath,
                                             !.output_part_path = output_part_path],
                                          Frame("conv", "Convert", filepath, output_part_path))
    /\ ret' = NoRet
    /\ UNCHANGED <<dirs, nextDir, hist>>

\* after convert_attachment: analysis extraction, then normalization
AttachConverted ==
    /\ Running("eml", "AttachConverted")
    /\ ret.t = "return"
    /\ LET f == Top
           out == f.output_part_path
           success == ret.val /\ Exists(fs, out)
           original == fs[f.filepath]
           wanted == success /\ IsOriginalPdfOrOffice(original.sniff, ExtOf(f.filename))
           pdf_data == ExtractPdfData(fs, out)
           analysis == IF wanted /\ pdf_data # <<>>
                       THEN Append(f.analysis, [filename |-> f.filename,
                                                pages |-> pdf_data[1].pages])
                       ELSE f.analysis
           normalized_path == <<f.dir, Replace(out[2], DotPdf, A4Pdf)>>
           entry == [filename |-> f.filename, idx |-> f.i, strat |-> ret.strat,
                     success |-> success,
                     recorded |-> wanted /\ pdf_data # <<>>,
                     data |-> IF success THEN pdf_data ELSE <<>>,
                     pages |-> IF success /\ ~ScaleFails(fs, out)
                               THEN ScaleToA4(fs[out].pages) ELSE <<>>]
           g == [f EXCEPT !.analysis = analysis, !.glog = Append(@, entry)]
       IN  /\ IF success /\ ScaleFails(fs, out)
              THEN \* scale_to_a4 raises outside the try block
                   /\ stack' = SetTop([g EXCEPT !.pc = "Finally", !.exc = "AttachmentLoop"])
                   /\ fs' = fs
              ELSE IF success
              THEN /\ fs' = WriteFile(fs, normalized_path,
                                      GenPdf(fs[out].id, ScaleToA4(fs[out].pages)))
                   /\ stack' = SetTop([g EXCEPT !.pc = "AttachmentLoop",
                                         !.pdf_parts = Append(@, normalized_path),
                                         !.attach_idx = @ + 1, !.i = @ + 1])
              ELSE /\ fs' = fs
                   /\ stack' = SetTop([g EXCEPT !.pc = "AttachmentLoop",
                                         !.attach_idx = @ + 1, !.i = @ + 1])
           /\ hist' = IF wanted /\ pdf_data # <<>>
                      THEN [hist EXCEPT !.recorded = @ \cup
                              {[strat |-> ret.strat, sniff |-> original.sniff,
                                ext |-> ExtOf(f.filename)]}]
                      ELSE hist
    /\ ret' = NoRet
    /\ UNCHANGED <<dirs, nextDir>>

\* the body is normalized and the parts are merged into temp_merged.pdf
Assemble ==
    /\ Running("eml", "Assemble")
    /\ \E ok \in BOOLEAN :
          LET f == Top
              body_pdf_path == <<f.dir, N_body>>
              body_a4 == <<f.dir, Replace(N_body, DotPdf, A4Pdf)>>
              scaled == WriteFile(fs, body_a4,
                                  GenPdf(fs[body_pdf_path].id,
                                         ScaleToA4(fs[body_pdf_path].pages)))
              pdf_parts == [f.pdf_parts EXCEPT ![1] = body_a4]
          IN  IF ScaleFails(fs, body_pdf_path)
              THEN /\ fs' = fs
                   /\ stack' = SetTop([f EXCEPT !.pc = "Finally", !.exc = "Assemble"])
              ELSE IF MergeFails(scaled, pdf_parts) \/ ~ok
              THEN /\ fs' = scaled
                   /\ stack' = SetTop([f EXCEPT !.pc = "Finally", !.exc = "Assemble",
                                         !.pdf_parts = pdf_parts])
              ELSE /\ fs' = WriteFile(scaled, <<f.dir, TempMerged>>,
                                      GenPdf(f.msg[1].id, MergePages(scaled, pdf_parts)))
                   /\ stack' = SetTop([f EXCEPT !.pc = "Paginate",
                                         !.pdf_parts = pdf_parts])
    /\ UNCHANGED <<dirs, nextDir, ret, hist>>

\* add_page_numbers writes the output PDF; the renderer may fail
Paginate ==
    /\ Running("eml", "Paginate")
    /\ \E ok \in BOOLEAN :
          LET f == Top
          IN  IF ok
              THEN /\ fs' = WriteFile(fs, f.outp,
                              GenPdf(f.msg[1].id,
                                     AddPageNumbers(fs[<<f.dir, TempMerged>>].pages)))
                   /\ stack' = SetTop([f EXCEPT !.pc = "Serialize"])
              ELSE /\ fs' = fs
                   /\ stack' = SetTop([f EXCEPT !.pc = "Finally", !.exc = "Paginate"])
    /\ UNCHANGED <<dirs, nextDir, ret, hist>>

\* (mutant) every invocation writes its sidecar beside the final document
SerializeBesideFinal ==
    /\ Running("eml", "Serialize")
    /\ \E ok \in BOOLEAN :
          LET f == Top
              output_xml_path == <<OutDir, WithSuffix(OutputName, DotXml)>>
          IN  /\ fs' = IF ok THEN WriteFile(fs, output_xml_path,
                                            GenXml(f.msg[1].id, f.analysis))
                       ELSE fs
              /\ stack' = SetTop([f EXCEPT !.pc = "Finally"])
    /\ UNCHANGED <<dirs, nextDir, ret, hist>>

\* the analysis XML is written next to the output; a failure is logged only
Serialize ==
    /\ Running("eml", "Serialize")
    /\ \E ok \in BOOLEAN :
          LET f == Top
              output_xml_path == <<f.outp[1], WithSuffix(f.outp[2], DotXml)>>
          IN  /\ fs' = IF ok THEN WriteFile(fs, output_xml_path,
                                            GenXml(f.msg[1].id, f.analysis))
                       ELSE fs
              /\ stack' = SetTop([f EXCEPT !.pc = "Finally"])
    /\ UNCHANGED <<dirs, nextDir, ret, hist>>

\* (mutant) the working directory is removed on the success path only
FinallyOnSuccessOnly ==
    /\ Running("eml", "Finally")
    /\ LET f == Top
       IN  /\ fs' = IF f.exc = "none" THEN RmTree(fs, f.dir) ELSE fs
           /\ dirs' = IF f.exc = "none" THEN dirs \ {f.dir} ELSE dirs
           /\ stack' = Pop
           /\ ret' = IF f.exc = "none" THEN Returned(TRUE, "none") ELSE Raised(f.exc)
           /\ hist' = [hist EXCEPT
                         !.raised = IF f.exc = "none" THEN @ ELSE @ \cup {f.exc},
                         !.done = IF Len(stack) = 1 THEN <<f>> ELSE @]
    /\ UNCHANGED nextDir

\* finally: shutil.rmtree(temp_dir), then return or re-raise
Finally ==
    /\ Running("eml", "Finally")
    /\ LET f == Top
       IN  /\ fs' = RmTree(fs, f.dir)
           /\ dirs' = dirs \ {f.dir}
           /\ stack' = Pop
           /\ ret' = IF f.exc = "none" THEN Returned(TRUE, "none") ELSE Raised(f.exc)
           /\ hist' = [hist EXCEPT
                         !.raised = IF f.exc = "none" THEN @ ELSE @ \cup {f.exc},
                         !.done = IF Len(stack) = 1 THEN <<f>> ELSE @]
    /\ UNCHANGED nextDir

(***************************************************************************)
(* convert_attachment.                                                     *)
(***************************************************************************)
\* return from convert_attachment, removing the scratch directory it holds
ConvReturn(f, files, v) ==
    /\ fs' = IF f.dir = NoDir THEN files ELSE RmTree(files, f.dir)
    /\ dirs' = dirs \ {f.dir}
    /\ stack' = Pop
    /\ ret' = Returned(v, f.strat)

\* what one archive conversion did (ghost): the archive's entries, the value
\* returned, whether the output exists and its pages, and the members tried
ZipRecord(f, files, v) ==
    [arch |-> fs[f.inp].id, entries |-> fs[f.inp].entries, val |-> v,
     written |-> Exists(files, f.outp),
     pages |-> IF v THEN files[f.outp].pages ELSE <<>>,
     log |-> f.glog]

\* return from the archive branch of convert_attachment
ZipDone(f, files, v) ==
    /\ ConvReturn(f, files, v)
    /\ hist' = [hist EXCEPT !.zips = @ \cup {ZipRecord(f, files, v)}]

\* entry: size check, classification, dispatch; the strategies that call
\* nothing complete here
Convert ==
    /\ Running("conv", "Convert")
    /\ LET f0    == Top
           b     == fs[f0.inp]
           name  == f0.inp[2]
           ext   == ExtOf(BaseName(name))
           mime  == DetectMime(b.sniff, name)
           strat == IF b.empty THEN "empty" ELSE Strategy(mime, ext)
           f     == [f0 EXCEPT !.strat = strat]
           d     == TmpDir(nextDir)
           call  == [sniff |-> b.sniff, ext |-> ext, strat |-> strat]
       IN  /\ hist' = IF b.empty THEN hist
                      ELSE [hist EXCEPT !.dispatch = @ \cup {call},
                                        !.office = IF strat = "office"
                                                   THEN @ \cup {call} ELSE @,
                                        !.zips = IF strat = "zip" /\ ~b.zip
                                                 THEN @ \cup {ZipRecord(f, fs, FALSE)}
                                                 ELSE @]
           /\ CASE strat = "pdf" ->
                     \* shutil.copy; SameFileError when source and target
                     \* are one file (caught)
                     /\ IF f.inp = f.outp
                        THEN ConvReturn(f, fs, FALSE)
                        ELSE ConvReturn(f, WriteFile(fs, f.outp, b), TRUE)
                     /\ UNCHANGED nextDir
                [] strat = "image" ->
                     \* convert_image_to_pdf; an exception is caught
                     /\ IF b.img
                        THEN ConvReturn(f, WriteFile(fs, f.outp, GenPdf(b.id, b.pages)), TRUE)
                        ELSE ConvReturn(f, fs, FALSE)
                     /\ UNCHANGED nextDir
                [] strat = "office" ->
                     \* convert_office_to_pdf: scratch directory, then soffice
                     /\ stack' = SetTop([f EXCEPT !.pc = "Office", !.dir = d])
                     /\ dirs' = dirs \cup {d}
                     /\ nextDir' = nextDir + 1
                     /\ ret' = NoRet
                     /\ fs' = fs
                [] strat = "eml" ->
                     /\ stack' = Push([f EXCEPT !.pc = "EmlReturn"],
                                      Frame("eml", "Parse", f.inp, f.outp))
                     /\ ret' = NoRet
                     /\ UNCHANGED <<fs, dirs, nextDir>>
                [] strat = "msg" ->
                     IF b.ole
                     THEN LET temp_eml_path == <<d, Stem(BaseName(name)) \o DotEml>>
                          IN  /\ fs' = WriteFile(fs, temp_eml_path, SaveMsgAsEml(b))
                              /\ stack' = Push([f EXCEPT !.pc = "EmlReturn", !.dir = d],
                                               Frame("eml", "Parse", temp_eml_path, f.outp))
                              /\ dirs' = dirs \cup {d}
                              /\ nextDir' = nextDir + 1
                              /\ ret' = NoRet
                     ELSE \* save_msg_as_eml returns False
                          /\ ConvReturn(f, fs, FALSE)
                          /\ UNCHANGED nextDir
                [] strat = "zip" ->
                     IF b.zip
                     THEN /\ fs' = ExtractAll(fs, d, b.entries)
                          /\ stack' = SetTop([f EXCEPT !.pc = "ZipLoop", !.dir = d, !.i = 0,
                                  !.file_list = SortPaths({b.entries[k].path :
                                                            k \in DOMAIN b.entries})])
                          /\ dirs' = dirs \cup {d}
                          /\ nextDir' = nextDir + 1
                          /\ ret' = NoRet
                     ELSE \* zipfile cannot extract
                          /\ ConvReturn(f, fs, FALSE)
                          /\ UNCHANGED nextDir
                [] OTHER ->
                     \* an empty file, or no strategy
                     /\ ConvReturn(f, fs, FALSE)
                     /\ UNCHANGED nextDir

\* soffice has run: its PDF is moved to the output, or the failure is caught
Office ==
    /\ Running("conv", "Office")
    /\ LET f == Top
           b == fs[f.inp]
       IN  IF b.office
           THEN ConvReturn(f, WriteFile(fs, f.outp, GenPdf(b.id, b.pages)), TRUE)
           ELSE ConvReturn(f, fs, FALSE)
    /\ UNCHANGED <<nextDir, hist>>

\* the nested process_eml has returned (True) or raised (caught: False)
EmlReturn ==
    /\ Running("conv", "EmlReturn")
    /\ ret.t \in {"return", "raise"}
    /\ ConvReturn(Top, fs, ret.t = "return")
    /\ UNCHANGED <<nextDir, hist>>

\* (mutant) the archive is merged even when no member was converted
ZipMergesAnyway(f, files) == ~MergeFails(files, f.pdf_parts)

\* "if generated_pdfs:" and the merge that follows it
ZipMerges(f, files) == f.pdf_parts # <<>> /\ ~MergeFails(files, f.pdf_parts)

\* the loop over the extracted files, and the merge after it
ZipLoop ==
    /\ Running("conv", "ZipLoop")
    /\ LET f == Top
       IN  IF f.i >= Len(f.file_list)
           THEN IF ZipMerges(f, fs)
                THEN ZipDone(f, WriteFile(fs, f.outp,
                                GenPdf(fs[f.inp].id, MergePages(fs, f.pdf_parts))), TRUE)
                ELSE ZipDone(f, fs, FALSE)
           ELSE LET subfile == f.file_list[f.i + 1]
                    sub_output_pdf == <<f.dir, ZipPart(f.i) \o DotPdf>>
                IN  /\ IF IsHidden(subfile)
                       THEN stack' = SetTop([f EXCEPT !.i = @ + 1])
                       ELSE stack' = Push([f EXCEPT !.pc = "ZipReturn",
                                             !.filename = subfile,
                                             !.output_part_path = sub_output_pdf],
                                          Frame("conv", "Convert",
                                                <<f.dir, subfile>>, sub_output_pdf))
                    /\ ret' = NoRet
                    /\ UNCHANGED <<fs, dirs, hist>>
    /\ UNCHANGED nextDir

\* one member has been converted: it is normalized and kept, or skipped
ZipReturn ==
    /\ Running("conv", "ZipReturn")
    /\ ret.t = "return"
    /\ LET f == Top
           sub_output_pdf == f.output_part_path
           sub_output_a4 == <<f.dir, ZipPart(f.i) \o A4Pdf>>
           scaled == ret.val /\ ~ScaleFails(fs, sub_output_pdf)
           entry == [path |-> f.filename, ok |-> ret.val,
                     pages |-> IF scaled THEN ScaleToA4(fs[sub_output_pdf].pages)
                               ELSE <<>>]
           g == [f EXCEPT !.glog = Append(@, entry)]
       IN  IF ~ret.val
           THEN /\ stack' = SetTop([g EXCEPT !.pc = "ZipLoop", !.i = @ + 1])
                /\ ret' = NoRet
                /\ UNCHANGED <<fs, dirs, hist>>
           ELSE IF ScaleFails(fs, sub_output_pdf)
           THEN \* scale_to_a4 raises: caught by the outer except, False
                ZipDone(g, fs, FALSE)
           ELSE /\ fs' = WriteFile(fs, sub_output_a4,
                             GenPdf(fs[sub_output_pdf].id,
                                    ScaleToA4(fs[sub_output_pdf].pages)))
                /\ stack' = SetTop([g EXCEPT !.pc = "ZipLoop", !.i = @ + 1,
                                      !.pdf_parts = Append(@, sub_output_a4)])
                /\ ret' = NoRet
                /\ UNCHANGED <<dirs, hist>>
    /\ UNCHANGED nextDir

Next ==
    \/ Parse
    \/ BodyRender
    \/ AttachStart
    \/ AttachConverted
    \/ Assemble
    \/ Paginate
    \/ Serialize
    \/ Finally
    \/ Convert
    \/ Office
    \/ EmlReturn
    \/ ZipLoop
    \/ ZipReturn

Spec == Init /\ [][Next]_vars

(***************************************************************************)
(* Batch mode (__main__): every *.eml file of the input directory is       *)
(* handed to process_eml in turn.                                          *)
(***************************************************************************)
MaxFiles == 2

EndsWith(s, t) == Len(s) >= Len(t) /\ SubSeq(s, Len(s) - Len(t) + 1, Len(s)) = t

\* the files the input directory may hold that match *.eml
BatchNames == << <<"a">> \o DotEml, <<"b">> \o DotEml, <<"a", ".", "b">> \o DotEml >>

\* a file of the input directory the pattern does not match
N_upper_eml == <<"c", ".", "E", "M", "L">>

\* a short message used as a nested e-mail
NoteBlob ==
    [Blob(<<"note", 0>>) EXCEPT
        !.msg = <<[id |-> <<"note", 0>>, body |-> "plain", npages |-> 1, atts |-> <<>>]>>]

\* the messages of a batch: one with an office file and an archive, one with
\* a nested e-mail and a PDF that cannot be read
BatchMessage(n, kind) ==
    [id |-> <<"file", n>>, npages |-> 1,
     body |-> IF kind = 1 THEN "html" ELSE "plain",
     atts |-> IF kind = 1
              THEN <<Att(N_b_docx, "bin", Docx), Att(N_d_zip, "bin", HiddenOnlyZip)>>
              ELSE <<Att(N_e_eml, "bin", NoteBlob), Att(N_a_pdf, "bin", CorruptPdf)>>]

BatchFile(n, kind) == [Blob(<<"file", n>>) EXCEPT !.msg = <<BatchMessage(n, kind)>>]

\* the input directories: up to MaxFiles matching files, and one that the
\* pattern does not match
BatchDirs ==
    {[q \in {<<InDir, BatchNames[n]>> : n \in S} \cup {<<InDir, N_upper_eml>>} |->
         IF q[2] = N_upper_eml THEN BatchFile(0, 1)
         ELSE BatchFile(CHOOSE n \in S : BatchNames[n] = q[2],
                        kinds[CHOOSE n \in S : BatchNames[n] = q[2]])] :
       S \in {T \in SUBSET DOMAIN BatchNames : Cardinality(T) <= MaxFiles},
       kinds \in [DOMAIN BatchNames -> {1, 2}]}

\* list(input_path.glob("*.eml")): the matching names, in any order
GlobEml(f) ==
    LET found == {q[2] : q \in {r \in DOMAIN f : r[1] = InDir /\ EndsWith(r[2], DotEml)}}
    IN  {l \in [1..Cardinality(found) -> found] :
            \A i, j \in DOMAIN l : i # j => l[i] # l[j]}

\* target_pdf = output_dir / f"{base_name}.pdf"
TargetPdf(name) == <<OutDir, Stem(name) \o DotPdf>>

BatchInit ==
    /\ fs \in BatchDirs
    /\ stack = <<Frame("main", "Glob", <<InDir, <<>>>>, <<OutDir, <<>>>>)>>
    /\ dirs = {}
    /\ nextDir = 1
    /\ ret = NoRet
    /\ hist = [dispatch |-> {}, office |-> {}, recorded |-> {}, zips |-> {},
               raised |-> {}, done |-> <<>>]

\* the input directory is listed
MainGlob ==
    /\ Running("main", "Glob")
    /\ \E l \in GlobEml(fs) :
          stack' = SetTop([Top EXCEPT !.pc = "Loop", !.file_list = l, !.i = 0])
    /\ UNCHANGED <<fs, dirs, nextDir, ret, hist>>

\* the next file is handed to process_eml, or the loop ends
MainLoop ==
    /\ Running("main", "Loop")
    /\ LET f == Top
       IN  IF f.i >= Len(f.file_list)
           THEN /\ stack' = Pop
                /\ hist' = [hist EXCEPT !.done = <<f>>]
                /\ ret' = NoRet
           ELSE LET eml_file == f.file_list[f.i + 1]
                IN  /\ stack' = Push([f EXCEPT !.pc = "MainReturn", !.filename = eml_file],
                                     Frame("eml", "Parse", <<InDir, eml_file>>,
                                           TargetPdf(eml_file)))
                    /\ ret' = NoRet
                    /\ hist' = hist
    /\ UNCHANGED <<fs, dirs, nextDir>>

\* (mutant) an exception of process_eml ends the loop
MainReturnUncaught ==
    /\ Running("main", "MainReturn")
    /\ ret.t \in {"return", "raise"}
    /\ LET f == Top
           entry == [file |-> f.filename, target |-> TargetPdf(f.filename),
                     outcome |-> ret.t]
       IN  stack' = SetTop([f EXCEPT !.pc = "Loop", !.glog = Append(@, entry),
                                     !.i = IF ret.t = "raise" THEN Len(f.file_list)
                                           ELSE @ + 1])
    /\ ret' = NoRet
    /\ UNCHANGED <<fs, dirs, nextDir, hist>>

\* process_eml has returned or raised; an exception is logged, and the loop
\* goes on either way
MainReturn ==
    /\ Running("main", "MainReturn")
    /\ ret.t \in {"return", "raise"}
    /\ LET f == Top
           entry == [file |-> f.filename, target |-> TargetPdf(f.filename),
                     outcome |-> ret.t]
       IN  stack' = SetTop([f EXCEPT !.pc = "Loop", !.glog = Append(@, entry),
                                     !.i = @ + 1])
    /\ ret' = NoRet
    /\ UNCHANGED <<fs, dirs, nextDir, hist>>

BatchNext ==
    \/ MainGlob
    \/ MainLoop
    \/ MainReturn
    \/ Next

BatchSpec == BatchInit /\ [][BatchNext]_vars

(***************************************************************************)
(* The filename sanitization on its own: a declared name goes through the  *)
(* four statements of lines 809-836, one statement per step.               *)
(***************************************************************************)
MaxExtra == 2

\* n times the character c
RECURSIVE Rep(_, _)
Rep(c, n) == IF n = 0 THEN <<>> ELSE <<c>> \o Rep(c, n - 1)

\* what a declared name may start with: nothing, a character the pattern
\* removes, a letter with a diaeresis, a character without ASCII form, a space
DeclaredPrefixes == {<<>>, <<"(">>, <<"a-uml">>, <<"euro">>, <<" ">>}

\* the extensions of the declared names: none, .pdf, and long ones around
\* MAX_LEN characters (the dot included)
DeclaredExtensions ==
    {<<>>, DotPdf} \cup
    {<<".">> \o Rep("e", k - 1) : k \in (MAX_LEN - 2)..(MAX_LEN + MaxExtra)}

\* part.get_filename(): the declared names of the model
DeclaredNames ==
    {p \o Rep("x", n) \o ext :
        p \in DeclaredPrefixes, n \in 0..(MAX_LEN + MaxExtra), ext \in DeclaredExtensions}
      \ {<<>>}

SanInit ==
    /\ \E name \in DeclaredNames :
          hist = [declared |-> name, filename |-> name, untruncated |-> <<>>,
                  pc |-> "Normalize"]
    /\ stack = <<>>
    /\ fs = <<>>
    /\ dirs = {}
    /\ nextDir = 1
    /\ ret = NoRet

\* filename = unicodedata.normalize('NFKD', filename).encode('ascii', 'ignore').decode('ascii')
SanNormalize ==
    /\ hist.pc = "Normalize"
    /\ hist' = [hist EXCEPT !.filename = AsciiOnly(Normalize(@)), !.pc = "Spaces"]
    /\ UNCHANGED <<stack, fs, dirs, nextDir, ret>>

\* filename = filename.replace(' ', '_')
SanSpaces ==
    /\ hist.pc = "Spaces"
    /\ hist' = [hist EXCEPT !.filename = SpacesToUnderscore(@), !.pc = "Keep"]
    /\ UNCHANGED <<stack, fs, dirs, nextDir, ret>>

\* filename = re.sub(r'[^a-zA-Z0-9._-]', '', filename)
SanKeep ==
    /\ hist.pc = "Keep"
    /\ hist' = [hist EXCEPT !.filename = KeepAllowed(@), !.pc = "Truncate"]
    /\ UNCHANGED <<stack, fs, dirs, nextDir, ret>>

\* the truncation to MAX_LEN characters
SanTruncate ==
    /\ hist.pc = "Truncate"
    /\ hist' = [hist EXCEPT !.filename = Truncate(@), !.untruncated = hist.filename,
                            !.pc = "Sanitized"]
    /\ UNCHANGED <<stack, fs, dirs, nextDir, ret>>

SanNext ==
    \/ SanNormalize
    \/ SanSpaces
    \/ SanKeep
    \/ SanTruncate

SanSpec == SanInit /\ [][SanNext]_vars

(***************************************************************************)
(* scale_to_a4 on one page: the arithmetic of lines 124-136.  Lengths are  *)
(* hundredths of a point.  The code computes with floating-point numbers;  *)
(* here the scale factor is the exact fraction <<n, d>> and an offset is   *)
(* kept as its numerator over the denominator 2 * d.  Products of two      *)
(* lengths exceed the range of a machine integer, so they are kept as      *)
(* pairs <<hi, lo>> standing for hi * 100000 + lo with 0 <= lo < 100000.   *)
(***************************************************************************)
MaxDim == 9

BigNorm(x) == <<x[1] + (x[2] \div 100000), x[2] % 100000>>

\* a * b for 0 <= a, b <= 100000
BigMul(a, b) ==
    LET X == a * (b \div 100)
        Y == a * (b % 100)
    IN  BigNorm(<<X \div 1000, (X % 1000) * 100 + Y>>)

BigAdd(x, y) == BigNorm(<<x[1] + y[1], x[2] + y[2]>>)
BigSub(x, y) == BigNorm(<<x[1] - y[1], x[2] - y[2]>>)
BigLeq(x, y) == x[1] < y[1] \/ (x[1] = y[1] /\ x[2] <= y[2])
BigZero == <<0, 0>>

\* page.mediabox of the pages scale_to_a4 is given: the lower left corner
\* at the origin or elsewhere, widths and heights below, at and above A4
MediaBoxes ==
    LET dims == {k * 10000 : k \in 1..MaxDim}
    IN  [left : {0, 10000}, bottom : {0, 10000},
         width : dims \cup {A4_WIDTH_PT, LetterSize[1], ImageSize[1]},
         height : dims \cup {A4_HEIGHT_PT, LetterSize[2], ImageSize[2]}]

\* scale = min(A4_WIDTH_PT / orig_width, A4_HEIGHT_PT / orig_height)
ScaleFactor(orig_width, orig_height) ==
    IF BigLeq(BigMul(A4_WIDTH_PT, orig_height), BigMul(A4_HEIGHT_PT, orig_width))
    THEN <<A4_WIDTH_PT, orig_width>>
    ELSE <<A4_HEIGHT_PT, orig_height>>

\* (target - orig * scale) / 2, as the numerator over 2 * scale[2]
Offset(target, orig, scale) == BigSub(BigMul(target, scale[2]), BigMul(orig, scale[1]))

\* Transformation().scale(scale).translate(t, .) maps the coordinate c to
\* scale * c + t; the numerator over 2 * scale[2]
Transformed(c, scale, t) == BigAdd(BigAdd(BigMul(c, scale[1]), BigMul(c, scale[1])), t)

ScaleInit ==
    /\ \E box \in MediaBoxes :
          hist = [mediabox |-> box, pc |-> "Dimensions", orig_width |-> 0,
                  orig_height |-> 0, scale |-> <<0, 1>>, tx |-> BigZero, ty |-> BigZero,
                  placed |-> <<>>]
    /\ stack = <<>>
    /\ fs = <<>>
    /\ dirs = {}
    /\ nextDir = 1
    /\ ret = NoRet

\* orig_width = page.mediabox.width; orig_height = page.mediabox.height
ScaleDimensions ==
    /\ hist.pc = "Dimensions"
    /\ hist' = [hist EXCEPT !.orig_width = hist.mediabox.width,
                            !.orig_height = hist.mediabox.height, !.pc = "Factor"]
    /\ UNCHANGED <<stack, fs, dirs, nextDir, ret>>

\* scale_w, scale_h, scale
ScaleMin ==
    /\ hist.pc = "Factor"
    /\ hist' = [hist EXCEPT !.scale = ScaleFactor(hist.orig_width, hist.orig_height),
                            !.pc = "Center"]
    /\ UNCHANGED <<stack, fs, dirs, nextDir, ret>>

\* tx, ty
ScaleCenter ==
    /\ hist.pc = "Center"
    /\ hist' = [hist EXCEPT !.tx = Offset(A4_WIDTH_PT, hist.orig_width, hist.scale),
                            !.ty = Offset(A4_HEIGHT_PT, hist.orig_height, hist.scale),
                            !.pc = "Merge"]
    /\ UNCHANGED <<stack, fs, dirs, nextDir, ret>>

\* the transformed page is merged onto the blank A4 page: the corners of its
\* media box land at the transformed coordinates
ScaleMerge ==
    /\ hist.pc = "Merge"
    /\ LET b == hist.mediabox
       IN  hist' = [hist EXCEPT !.pc = "Merged",
                       !.placed = <<[x0 |-> Transformed(b.left, hist.scale, hist.tx),
                                     x1 |-> Transformed(b.left + b.width, hist.scale, hist.tx),
                                     y0 |-> Transformed(b.bottom, hist.scale, hist.ty),
                                     y1 |-> Transformed(b.bottom + b.height, hist.scale,
                                                        hist.ty)]>>]
    /\ UNCHANGED <<stack, fs, dirs, nextDir, ret>>

ScaleNext ==
    \/ ScaleDimensions
    \/ ScaleMin
    \/ ScaleCenter
    \/ ScaleMerge

ScaleSpec == ScaleInit /\ [][ScaleNext]_vars

(***************************************************************************)
(* Observations used by the properties.                                    *)
(***************************************************************************)
Done == stack = <<>>

\* the top-level process_eml has returned normally
TopReturned == Done /\ ret.t = "return"

\* the top-level process_eml has raised
TopRaised == Done /\ ret.t = "raise"

FinalPath == <<OutDir, OutputName>>
SidecarPath == <<OutDir, WithSuffix(OutputName, DotXml)>>
FinalPages == fs[FinalPath].pages

\* the top-level invocation as it was when it ended
TopFrame == hist.done[1]

EmlFrames == {k \in DOMAIN stack : stack[k].kind = "eml"}

Unstamped(pages) == [i \in DOMAIN pages |-> [pages[i] EXCEPT !.stamps = <<>>]]

RECURSIVE SumPages(_, _)
SumPages(f, parts) ==
    IF parts = <<>> THEN 0 ELSE Len(f[parts[1]].pages) + SumPages(f, Tail(parts))

\* the page blocks of the attachments that were converted, in loop order
RECURSIVE Blocks(_)
Blocks(log) ==
    IF log = <<>> THEN <<>>
    ELSE (IF log[1].success THEN log[1].pages ELSE <<>>) \o Blocks(Tail(log))

\* an attachment of the run whose strategy was pass-through or office
\* ("document-like"), that converted and whose extraction gave data
Analysable(e) ==
    e.strat \in {"pdf", "office"} /\ e.success /\ e.data # <<>>

\* the sidecar entries of the attachments that were given a record: the
\* sanitized name and one Page per page of the converted PDF
RECURSIVE RecordedEntries(_)
RecordedEntries(log) ==
    IF log = <<>> THEN <<>>
    ELSE (IF log[1].recorded
          THEN <<[filename |-> log[1].filename, pages |-> log[1].data[1].pages]>>
          ELSE <<>>) \o RecordedEntries(Tail(log))

(***************************************************************************)
(* Properties.                                                             *)
(***************************************************************************)

\* C1: no failure while an attachment is handled makes process_eml raise:
\* no invocation leaves its attachment loop by an exception.
C1_AttachmentFailureAbsorbed ==
    \A k \in EmlFrames : stack[k].exc # "AttachmentLoop"

\* C2: every page of the final document of a top-level run carries exactly
\* one stamp, the page's 1-based position.
C2_EachPageStampedOnce ==
    TopReturned => \A i \in DOMAIN FinalPages : FinalPages[i].stamps = <<i>>

\* C3: the live scratch directories are exactly those of the invocations
\* still on the call stack, and no file is left in a directory that is gone:
\* a directory never outlives the call that created it.
C3_ScratchDirsScoped ==
    /\ dirs = {stack[k].dir : k \in DOMAIN stack} \ {NoDir}
    /\ \A q \in DOMAIN fs : q[1] \in dirs \cup {InDir, OutDir}

\* C3 witness: a nested process_eml started for a mailbox item has raised;
\* its working directory is gone while the transcoding directory of the
\* caller and the working directory of the top-level run are still live.
C3_Witness ==
    /\ Running("conv", "EmlReturn")
    /\ ret.t = "raise"
    /\ Top.dir \in dirs
    /\ Cardinality(dirs) = 2
    /\ nextDir = 4

\* C4: a file named .docx whose bytes are sniffed as application/zip is
\* dispatched to the archive strategy and never to the office engine.
C4_ZipNamedDocxIsArchive ==
    \A c \in hist.dispatch :
        c.sniff = MimeZip /\ c.ext = DotDocx => c.strat = "zip" /\ c \notin hist.office

\* C5: when sniffing returns a type, that type alone fixes the strategy: two
\* files of the same sniffed type get the same strategy whatever their names.
C5_SniffedTypeAloneDecides ==
    \A c1, c2 \in hist.dispatch :
        c1.sniff = c2.sniff /\ c1.sniff # NoSniff => c1.strat = c2.strat

\* C6: the final document is the rendered body followed by the page blocks
\* of the converted attachments in encounter order.
C6_BodyThenBlocksInOrder ==
    TopReturned =>
        Unstamped(FinalPages)
          = Unstamped(ScaleToA4(TopFrame.gbody) \o Blocks(TopFrame.glog))

\* C7: right after the merge the merged document has as many pages as the
\* parts in pdf_parts together, and right after add_page_numbers the output
\* has as many pages as the merged document.
C7_PageCountPreserved ==
    \A k \in EmlFrames :
        LET f == stack[k]
            merged == <<f.dir, TempMerged>>
        IN  /\ f.pc = "Paginate" => Len(fs[merged].pages) = SumPages(fs, f.pdf_parts)
            /\ f.pc = "Serialize" => Len(fs[f.outp].pages) = Len(fs[merged].pages)

\* C7 witness: a document of several parts and several pages has been
\* merged and paginated.
C7_Witness ==
    /\ Running("eml", "Serialize")
    /\ Len(Top.pdf_parts) >= 3
    /\ Len(fs[Top.outp].pages) > Len(Top.pdf_parts)

\* C8: when the parts are merged, pdf_parts is non-empty and its element 0
\* holds the normalized pages of the body rendered for this message.
C8_PartZeroIsBody ==
    \A k \in EmlFrames :
        stack[k].pc = "Paginate" =>
            /\ stack[k].pdf_parts # <<>>
            /\ fs[stack[k].pdf_parts[1]].pages = ScaleToA4(stack[k].gbody)

\* C9: an analysis record is added only for an attachment converted by the
\* pass-through (PDF) or the office strategy.
C9_RecordsOnlyForDocuments ==
    \A r \in hist.recorded : r.strat \in {"pdf", "office"}

\* C10: in the sidecar of a completed run every document-like attachment
\* that converted and whose extraction gave data has its entry, and the
\* entries stand in encounter order, each under the sanitized name and with
\* one Page per page of the converted PDF, ids 1..n.
C10_SidecarEntries ==
    TopReturned /\ Exists(fs, SidecarPath) =>
        /\ \A k \in DOMAIN TopFrame.glog :
              Analysable(TopFrame.glog[k]) => TopFrame.glog[k].recorded
        /\ fs[SidecarPath].xml = RecordedEntries(TopFrame.glog)
        /\ \A k \in DOMAIN fs[SidecarPath].xml :
              LET e == fs[SidecarPath].xml[k]
              IN  \A i \in DOMAIN e.pages : e.pages[i].id = i

\* the page blocks of the archive members that were converted, in loop order
RECURSIVE ZipBlocks(_)
ZipBlocks(log) ==
    IF log = <<>> THEN <<>> ELSE log[1].pages \o ZipBlocks(Tail(log))

\* an archive entry that is plainly convertible: not hidden, and a readable
\* PDF or a readable image of a supported type
PlainlyConvertible(e) ==
    /\ ~IsHidden(e.path)
    /\ ~e.blob.empty
    /\ \/ e.blob.sniff = MimePdf /\ e.blob.pdf
       \/ e.blob.sniff \in SupportedImages /\ e.blob.img

\* the same for an attachment of a message
PlainAttachment(a) ==
    /\ a.ctype = "bin"
    /\ IsFileName(Sanitize(a.fn))
    /\ PlainlyConvertible([path |-> Sanitize(a.fn), blob |-> a.blob])

\* C11: an archive with at least one plainly convertible entry is converted
\* with success, and its PDF holds the pages of every such entry.
C11_ArchiveSurvivesBadEntry ==
    \A z \in hist.zips :
        (\E k \in DOMAIN z.entries : PlainlyConvertible(z.entries[k])) =>
            /\ z.val
            /\ \A k \in DOMAIN z.entries :
                 PlainlyConvertible(z.entries[k]) =>
                    \A i \in DOMAIN z.entries[k].blob.pages :
                       \E j \in DOMAIN z.pages :
                          /\ z.pages[j].src = z.entries[k].blob.pages[i].src
                          /\ z.pages[j].no = z.entries[k].blob.pages[i].no

\* no member of the archive was converted: every call made for a member
\* returned False (no call at all when there is nothing to try)
NoneConverted(z) == \A k \in DOMAIN z.log : ~z.log[k].ok

\* C12: an archive none of whose members converts (no entries, only hidden
\* or unsupported entries, or no extraction at all) is reported as failed,
\* leaves no output PDF and contributes no part, and the attachment loop of
\* the message goes on.
C12_UnconvertibleArchiveFails ==
    /\ \A z \in hist.zips :
          NoneConverted(z) => ~z.val /\ ~z.written /\ z.pages = <<>>
    /\ \A k \in EmlFrames :
          \A j \in DOMAIN stack[k].glog :
             LET e == stack[k].glog[j]
             IN  e.strat = "zip" /\ ~e.success =>
                    /\ e.pages = <<>>
                    /\ j = Len(stack[k].glog) => stack[k].exc # "AttachmentLoop"

\* C12 witness: the first attachment of a completed run was an archive whose
\* only tried member failed, and a later attachment still gave its pages.
C12_Witness ==
    /\ TopReturned
    /\ Len(TopFrame.glog) = 2
    /\ TopFrame.glog[1].strat = "zip" /\ ~TopFrame.glog[1].success
    /\ TopFrame.glog[2].success
    /\ Len(FinalPages) > 1
    /\ \E z \in hist.zips : z.log # <<>> /\ NoneConverted(z) /\ ~z.val

\* the entry of an archive stored under the given path
EntryAt(entries, path) ==
    entries[CHOOSE k \in DOMAIN entries : entries[k].path = path]

\* C13: the PDF of an archive is made of the blocks of its converted members
\* in ascending order of their paths, no hidden member among them, and the
\* block of a plainly convertible member holds that member's own pages.
C13_ArchiveEntriesInPathOrder ==
    \A z \in hist.zips :
        z.val =>
            /\ \A i, j \in DOMAIN z.log :
                  i < j => StrLess(z.log[i].path, z.log[j].path)
            /\ \A i \in DOMAIN z.log : ~IsHidden(z.log[i].path)
            /\ z.pages = ZipBlocks(z.log)
            /\ \A i \in DOMAIN z.log :
                  LET e == EntryAt(z.entries, z.log[i].path)
                  IN  PlainlyConvertible(e) =>
                         z.log[i].pages = ScaleToA4(e.blob.pages)

\* the pages of the plainly convertible attachments, in encounter order
RECURSIVE PlainPages(_)
PlainPages(atts) ==
    IF atts = <<>> THEN <<>>
    ELSE (IF PlainAttachment(atts[1]) THEN atts[1].blob.pages ELSE <<>>)
            \o PlainPages(Tail(atts))

\* what a nested message m must at least contribute: its rendered body, then
\* the pages of its plainly convertible attachments
NestedPages(m) == Unstamped(ScaleToA4(BodyPages(m) \o PlainPages(m.atts)))

\* the pages among ps that stem from one of the sources in qs
FromSources(ps, qs) ==
    SelectSeq(ps, LAMBDA p : \E i \in DOMAIN qs : qs[i].src = p.src)

\* C14: the block of a nested e-mail attachment starts with the rendered
\* body of the enclosed message and holds, after it and in encounter order,
\* the pages of the enclosed message's convertible attachments.
C14_NestedMessageBlock ==
    \A k \in EmlFrames :
        \A j \in DOMAIN stack[k].glog :
            LET e    == stack[k].glog[j]
                part == stack[k].msg[1].atts[e.idx]
                m    == part.blob.msg[1]
            IN  e.strat = "eml" /\ e.success /\ part.blob.msg # <<>> =>
                   /\ e.pages # <<>>
                   /\ Unstamped(e.pages)[1] = NestedPages(m)[1]
                   /\ FromSources(Unstamped(e.pages), NestedPages(m)) = NestedPages(m)

\* C15: when the top-level process_eml has returned normally, the final PDF
\* and the analysis sidecar beside it both exist.
C15_SuccessWritesBoth ==
    TopReturned =>
        /\ Exists(fs, FinalPath) /\ fs[FinalPath].pdf
        /\ Exists(fs, SidecarPath)

\* C16: an invocation of process_eml ends by an exception only when the
\* body render or the assembly failed.
C16_RaisesOnlyFromBodyOrAssembly ==
    \A k \in EmlFrames : stack[k].exc \in {"none", "BodyRender", "Assemble"}

\* the stage of process_eml a control point belongs to, in program order;
\* 7 is the exit through the finally block
StageOf(pc) ==
    CASE pc = "Parse"           -> 1
      [] pc = "BodyRender"      -> 2
      [] pc = "AttachmentLoop"  -> 3
      [] pc = "AttachConverted" -> 3
      [] pc = "Assemble"        -> 4
      [] pc = "Paginate"        -> 5
      [] pc = "Serialize"       -> 6
      [] pc = "Finally"         -> 7

\* one step respects the stage order of every invocation on the stack
StageStep ==
    /\ \A k \in DOMAIN stack \cap DOMAIN stack' :
          /\ k < Len(stack) => stack'[k] = stack[k]
          /\ stack[k].kind = "eml" =>
                /\ stack'[k].kind = "eml"
                /\ \/ stack'[k] = stack[k]
                   \/ StageOf(stack'[k].pc) = StageOf(stack[k].pc) + 1
                   \/ StageOf(stack'[k].pc) = 3 /\ StageOf(stack[k].pc) = 3
                   \/ stack'[k].pc = "Finally" /\ stack[k].pc # "Finally"
    /\ Len(stack') > Len(stack) =>
          /\ Len(stack') = Len(stack) + 1
          /\ stack'[Len(stack')].kind = "eml" =>
                /\ stack'[Len(stack')].pc = "Parse"
                /\ \A k \in DOMAIN stack :
                      stack'[k].kind = "eml" => StageOf(stack'[k].pc) = 3
    /\ Len(stack') < Len(stack) /\ Top.kind = "eml" => Top.pc = "Finally"

\* C17: every invocation of process_eml goes through Parse, BodyRender,
\* AttachmentLoop, Assemble, Paginate, Serialize in this order, one stage
\* after the other and never back; a nested invocation starts at Parse and
\* has reached its end before the invocation below it moves again.
C17_StagesInOrder == [][StageStep]_vars

\* C17 witness: a nested invocation stands at Serialize while the invocation
\* that started it waits in its attachment loop.
C17_Witness ==
    \E k, j \in EmlFrames :
        /\ k < j
        /\ stack[k].pc = "AttachConverted"
        /\ stack[j].pc = "Serialize"

\* the batch loop, while it runs and after it has ended
MainFrame == IF stack # <<>> THEN stack[1] ELSE hist.done[1]

\* the *.eml files of the input directory
FoundEml == {q[2] : q \in {r \in DOMAIN fs : r[1] = InDir /\ EndsWith(r[2], DotEml)}}

\* C18: in batch mode the attempts follow the listing of the input directory,
\* one attempt per file; no two attempts share a file or a target; every
\* target lies in the output directory and has the stem of its input; an
\* attempt that returned left the document of its own input at its target;
\* and when the loop has ended every *.eml file of the input directory has
\* been attempted exactly once, whatever the outcome of the other attempts.
C18_BatchIsolatesFailures ==
    LET m == MainFrame
        log == m.glog
    IN  m.kind = "main" /\ m.pc # "Glob" =>
           /\ {m.file_list[i] : i \in DOMAIN m.file_list} = FoundEml
           /\ Len(m.file_list) = Cardinality(FoundEml)
           /\ Len(log) <= Len(m.file_list)
           /\ \A i \in DOMAIN log :
                 /\ log[i].file = m.file_list[i]
                 /\ log[i].target[1] = OutDir
                 /\ Stem(log[i].target[2]) = Stem(log[i].file)
                 /\ \A j \in DOMAIN log :
                       i # j => log[i].file # log[j].file /\ log[i].target # log[j].target
                 /\ log[i].outcome = "return" =>
                       /\ log[i].target \in DOMAIN fs
                       /\ fs[log[i].target].id = fs[<<InDir, log[i].file>>].msg[1].id
           /\ stack = <<>> => Len(log) = Cardinality(FoundEml)

\* the loop has ended after a first file that raised and a second that was
\* converted
C18_Witness ==
    /\ stack = <<>>
    /\ hist.done # <<>>
    /\ hist.done[1].kind = "main"
    /\ Len(hist.done[1].glog) = 2
    /\ hist.done[1].glog[1].outcome = "raise"
    /\ hist.done[1].glog[2].outcome = "return"
    /\ hist.done[1].glog[2].target \in DOMAIN fs

\* a name with a character that is an ASCII character or decomposes to one
AsciiRepresentable(name) ==
    \E i \in DOMAIN name : \E j \in DOMAIN NFKD(name[i]) : NFKD(name[i])[j] \in AsciiChars

\* C19: a declared name with at least one ASCII-representable character is
\* sanitized to a name that is not empty, has at most MAX_LEN characters and
\* holds only letters, digits, dots, underscores and dashes.
C19_SanitizedNameWellFormed ==
    hist.pc = "Sanitized" /\ AsciiRepresentable(hist.declared) =>
        /\ hist.filename # <<>>
        /\ Len(hist.filename) <= MAX_LEN
        /\ \A i \in DOMAIN hist.filename : hist.filename[i] \in AllowedChars

\* C20: a name of more than MAX_LEN characters is cut to at most MAX_LEN;
\* when its extension has at most MAX_LEN characters only the stem is
\* shortened and the result ends with the whole extension; when the
\* extension is longer, the result is the first MAX_LEN characters of the
\* name.
C20_TruncationKeepsExtension ==
    hist.pc = "Sanitized" /\ Len(hist.untruncated) > MAX_LEN =>
        LET stem   == SplitExt(hist.untruncated)[1]
            suffix == SplitExt(hist.untruncated)[2]
        IN  /\ Len(hist.filename) <= MAX_LEN
            /\ IF Len(suffix) <= MAX_LEN
               THEN /\ EndsWith(hist.filename, suffix)
                    /\ hist.filename = Take(stem, Len(hist.filename) - Len(suffix)) \o suffix
               ELSE hist.filename = Take(hist.untruncated, MAX_LEN)

\* C21: every page of the document a completed run has written has the A4
\* size, whatever the sizes of the pages it was made from.
C21_EveryPageIsA4 ==
    TopReturned =>
        \A i \in DOMAIN FinalPages :
            FinalPages[i].w = A4_WIDTH_PT /\ FinalPages[i].h = A4_HEIGHT_PT

\* twice the target length, over the denominator 2 * scale[2]
TargetEdge(target, scale) == BigAdd(BigMul(target, scale[2]), BigMul(target, scale[2]))

\* C22: for a page of positive width and height the scale factor is the
\* smaller of target width over width and target height over height; the
\* scaled page fills the target exactly in one dimension at least; placed on
\* the target it lies inside it, with equal margins left and right and equal
\* margins below and above, none of them negative.
C22_UniformScaleCentered ==
    hist.pc = "Merged" /\ hist.mediabox.width > 0 /\ hist.mediabox.height > 0 =>
        LET b == hist.mediabox
            s == hist.scale
            p == hist.placed[1]
            right == BigSub(TargetEdge(A4_WIDTH_PT, s), p.x1)
            top   == BigSub(TargetEdge(A4_HEIGHT_PT, s), p.y1)
        IN  /\ s \in {<<A4_WIDTH_PT, b.width>>, <<A4_HEIGHT_PT, b.height>>}
            /\ BigLeq(BigMul(s[1], b.width), BigMul(A4_WIDTH_PT, s[2]))
            /\ BigLeq(BigMul(s[1], b.height), BigMul(A4_HEIGHT_PT, s[2]))
            /\ \/ BigMul(s[1], b.width) = BigMul(A4_WIDTH_PT, s[2])
               \/ BigMul(s[1], b.height) = BigMul(A4_HEIGHT_PT, s[2])
            /\ BigLeq(BigZero, p.x0) /\ BigLeq(BigZero, right)
            /\ BigLeq(BigZero, p.y0) /\ BigLeq(BigZero, top)
            /\ p.x0 = right
            /\ p.y0 = top

\* C23: once the body has been rendered, no image reference with the cid
\* scheme that has a matching inline part was handed to the renderer, and the
\* bytes of that part lie in the working directory.
C23_CidReferencesResolved ==
    \A k \in EmlFrames :
        stack[k].body_content # <<>> /\ stack[k].msg[1].body = "html-cid" =>
            /\ \A img \in stack[k].body_content[1].images : img.scheme # "cid"
            /\ \E q \in DOMAIN fs : q[1] = stack[k].dir /\ fs[q].id = <<"inline", 0>>

\* C24: in every invocation of process_eml, once an attachment has been
\* written to the working directory the normalized body PDF exists there and
\* is the first part of the document.
C24_BodyNormalizedBeforeAttachments ==
    \A k \in EmlFrames :
        LET f == stack[k]
            body_a4 == <<f.dir, Replace(N_body, DotPdf, A4Pdf)>>
        IN  f.pc = "AttachConverted" =>
                /\ Exists(fs, body_a4)
                /\ f.pdf_parts[1] = body_a4

\* the sources of the plainly convertible files a file holds, itself
\* included, through at most d levels of archives and messages
RECURSIVE DeepDocs(_, _)
DeepDocs(b, d) ==
    IF ~b.empty /\ (\/ b.sniff = MimePdf /\ b.pdf
                    \/ b.sniff \in SupportedImages /\ b.img)
    THEN {b.pages[i].src : i \in DOMAIN b.pages}
    ELSE IF d = 0 THEN {}
    ELSE UNION {DeepDocs(b.entries[k].blob, d - 1) :
                   k \in {j \in DOMAIN b.entries : ~IsHidden(b.entries[j].path)}}
           \cup (IF b.msg = <<>> THEN {}
                 ELSE UNION {DeepDocs(b.msg[1].atts[k].blob, d - 1) :
                                k \in DOMAIN b.msg[1].atts})

\* C25: when no invocation of process_eml has raised, the block of a
\* container attachment (archive, nested e-mail, mailbox item) that was
\* converted holds pages of every plainly convertible file the container
\* holds at any depth.
C25_NestingFollowedToAnyDepth ==
    TopReturned /\ hist.raised = {} =>
        \A j \in DOMAIN TopFrame.glog :
            LET e    == TopFrame.glog[j]
                part == TopFrame.msg[1].atts[e.idx]
            IN  e.success /\ e.strat \in {"zip", "eml", "msg"} =>
                   \A src \in DeepDocs(part.blob, MaxDepth + 1) :
                      \E i \in DOMAIN e.pages : e.pages[i].src = src

\* C26: when the parts are about to be merged, the first path of pdf_parts
\* holds the rendered body of this message and the path of every attachment
\* part holds the normalized pages produced for that attachment.
C26_PartsHoldOwnContent ==
    \A k \in EmlFrames :
        LET f == stack[k]
            converted == SelectSeq(f.glog, LAMBDA e : e.success)
        IN  f.pc = "Assemble" =>
               /\ Exists(fs, f.pdf_parts[1])
               /\ fs[f.pdf_parts[1]].pages = f.gbody
               /\ Len(f.pdf_parts) = Len(converted) + 1
               /\ \A j \in DOMAIN converted :
                     /\ Exists(fs, f.pdf_parts[j + 1])
                     /\ fs[f.pdf_parts[j + 1]].pages = converted[j].pages

\* C27: in an archive conversion the block of every converted member is
\* made of pages of that member itself: no per-member output file has
\* replaced a member that was still to be converted.
C27_ZipPartsKeepEntries ==
    \A z \in hist.zips :
        \A i \in DOMAIN z.log :
            z.log[i].ok =>
                \A n \in DOMAIN z.log[i].pages :
                   z.log[i].pages[n].src \in
                       DeepDocs(EntryAt(z.entries, z.log[i].path).blob, MaxDepth + 1)

\* the entries of the attachment log for which an analysis record was made
RecordedLog(log) == SelectSeq(log, LAMBDA e : e.recorded)

\* C28: the sidecar beside the final document is the one written by the
\* top-level invocation; it has one entry for each direct attachment of the
\* top-level message that was recorded, in order and under that attachment's
\* name, none of them a container; every other sidecar lies in a working
\* directory that still exists, and none is left when the run has ended.
C28_SidecarOnlyDirectAttachments ==
    /\ \A q \in DOMAIN fs :
          EndsWith(q[2], DotXml) => q = SidecarPath \/ q[1] \in dirs
    /\ Done => \A q \in DOMAIN fs : EndsWith(q[2], DotXml) => q = SidecarPath
    /\ TopReturned /\ Exists(fs, SidecarPath) =>
          LET x   == fs[SidecarPath].xml
              rec == RecordedLog(TopFrame.glog)
          IN  /\ fs[SidecarPath].id = TopFrame.msg[1].id
              /\ Len(x) = Len(rec)
              /\ \A i \in DOMAIN x :
                    /\ x[i].filename = rec[i].filename
                    /\ x[i].filename = Sanitize(TopFrame.msg[1].atts[rec[i].idx].fn)
                    /\ rec[i].strat \notin {"zip", "eml", "msg"}

\* a completed run with a recorded PDF attachment and a nested e-mail whose
\* PDF attachment gave pages to the final document but no entry
C28_Witness ==
    /\ TopReturned
    /\ Exists(fs, SidecarPath)
    /\ Len(fs[SidecarPath].xml) = 1
    /\ \E j \in DOMAIN TopFrame.glog :
          /\ TopFrame.glog[j].strat = "eml"
          /\ TopFrame.glog[j].success
          /\ \E i \in DOMAIN TopFrame.glog[j].pages :
                TopFrame.glog[j].pages[i].src = PdfDoc.id
          /\ \E i \in DOMAIN FinalPages : FinalPages[i].src = PdfDoc.id

\* C29: when the top-level process_eml has returned normally, every entry
\* of the sidecar belongs to an attachment that was converted and whose
\* normalized pages are all in the final document.
C29_RecordedAttachmentsInDocument ==
    TopReturned /\ Exists(fs, SidecarPath) =>
        LET rec == RecordedLog(TopFrame.glog)
        IN  /\ Len(fs[SidecarPath].xml) = Len(rec)
            /\ \A i \in DOMAIN rec :
                  /\ rec[i].success
                  /\ \A n \in DOMAIN rec[i].pages :
                        \E m \in DOMAIN FinalPages :
                           /\ FinalPages[m].src = rec[i].pages[n].src
                           /\ FinalPages[m].no = rec[i].pages[n].no

\* the positions of the parts the attachment loop of f has passed over
Skipped(f) ==
    {j \in DOMAIN f.msg[1].atts :
        /\ j < f.i
        /\ \A n \in DOMAIN f.glog : f.glog[n].idx # j}

\* C30: in every invocation, a part without filename, or one whose bytes
\* cannot be written, is passed over: nothing is left of it in the working
\* directory and it takes no sequence index; the attachments that are
\* attempted are numbered 1, 2, ... and their output names differ.
C30_SkippedPartsLeaveNoTrace ==
    \A k \in EmlFrames :
        LET f == stack[k]
        IN  f.pc \in {"AttachmentLoop", "AttachConverted", "Assemble"} =>
               /\ f.attach_idx = Len(f.glog) + 1
               /\ f.pc = "AttachConverted" =>
                     f.output_part_path[2] =
                        Fmt02d(Len(f.glog) + 1) \o <<"_">> \o f.filename \o DotPdf
               /\ \A a, b \in DOMAIN f.glog :
                     a # b => Fmt02d(a) \o <<"_">> \o f.glog[a].filename
                                # Fmt02d(b) \o <<"_">> \o f.glog[b].filename
               /\ \A j \in Skipped(f) :
                     LET path == <<f.dir, Sanitize(f.msg[1].atts[j].fn)>>
                     IN  ~(Exists(fs, path) /\ fs[path] = EmptyFile)

====
